---- MODULE Spec2Model ----
(***************************************************************************)
(* The crate scheduler of forge-runner (run_tests_from_crate), the case    *)
(* dispatcher (choose_test_strategy_and_run) and the fuzz campaign driver  *)
(* (run_with_fuzzing), as a state machine of concurrently running tasks.   *)
(*                                                                         *)
(* Option<T> values are sets of at most one element: None is {} and        *)
(* Some(x) is {x}.                                                         *)
(***************************************************************************)
EXTENDS Integers, Sequences, FiniteSets, TLC

\* ------------------------------------------------------------------------
\* Bounds of the model
\* ------------------------------------------------------------------------

\* number of test cases of the crate
NumCases == 2

\* largest number of fuzzer runs a configuration asks for
MaxRuns == 2

\* largest number of fuzzer runs the campaigns of one crate ask for together
MaxRunTasks == 4

\* ------------------------------------------------------------------------
\* Values
\* ------------------------------------------------------------------------

None == {}

Some(x) == {x}

BUILTINS ==
    {"Pedersen", "RangeCheck", "Bitwise", "EcOp", "Poseidon", "SegmentArena",
     "GasBuiltin", "System"}

\* a parameter type whose debug_name is None
NoDebugName == "<no debug name>"

\* the type names RandomFuzzer::create accepts
SupportedTypes == {"u8", "u16", "u32", "u64", "u128", "u256", "felt252"}

CaseNames == <<"a", "b", "c", "d">>

\* the modulus of the fuzzer's pseudo-random generator
PrngMod == 8

\* the number of values a fuzzed argument ranges over
ArgRange == 2

ArgValues == 0 .. (ArgRange - 1)

\* TestCaseSummary values
Passed(name, gas_used) ==
    [kind |-> "Passed", name |-> Some(name), gas_used |-> Some(gas_used),
     runs |-> None, gas_usages |-> None]

Failed(name) ==
    [kind |-> "Failed", name |-> Some(name), gas_used |-> None,
     runs |-> None, gas_usages |-> None]

Ignored(name) ==
    [kind |-> "Ignored", name |-> Some(name), gas_used |-> None,
     runs |-> None, gas_usages |-> None]

Skipped ==
    [kind |-> "Skipped", name |-> None, gas_used |-> None,
     runs |-> None, gas_usages |-> None]

\* mutant of TaskErr: the error is turned into a Failed outcome
TaskErr_AsFailed ==
    [kind |-> "Failed", name |-> None, gas_used |-> None,
     runs |-> None, gas_usages |-> None]

\* what a task's JoinHandle yields when the task returned Err(..)
TaskErr ==
    [kind |-> "Err", name |-> None, gas_used |-> None,
     runs |-> None, gas_usages |-> None]

\* what a task's JoinHandle yields when the task panicked (a JoinError)
TaskPanic ==
    [kind |-> "Panic", name |-> None, gas_used |-> None,
     runs |-> None, gas_usages |-> None]

\* a task that has not produced its result yet
NoResult ==
    [kind |-> "-", name |-> None, gas_used |-> None,
     runs |-> None, gas_usages |-> None]

\* ------------------------------------------------------------------------
\* Inputs: the crate, the filter, the runner configuration, the executor
\* ------------------------------------------------------------------------

\* signatures of test functions: builtins only, builtins and one fuzzable
\* parameter, an unsupported parameter type, a type without a debug name
DetParams == <<"RangeCheck", "GasBuiltin">>

FuzzParams == <<"RangeCheck", "GasBuiltin", "u32">>

UnsupportedParams == <<"RangeCheck", "Array">>

UnnamedParams == <<"GasBuiltin", NoDebugName>>

FuzzerConfig(runs, seed) == [fuzzer_runs |-> runs, fuzzer_seed |-> seed]

\* the argument tuples a test function can be executed with
ArgTuples == {<<>>} \cup {<<v>> : v \in ArgValues}

\* A case of the crate together with what the collaborators do with it:
\* should_run is the filter's answer, failing the argument tuples on which
\* the executor reports a failure.
Setup(ignored, should_run, param_types, fuzzer_config, failing) ==
    [ignored |-> ignored, should_run |-> should_run, param_types |-> param_types,
     fuzzer_config |-> fuzzer_config, failing |-> failing]

\* the cases whose every mix makes a crate of the model: cases the filter
\* rejects, deterministic cases, campaigns with the runner's configuration
\* and campaigns of a single run
BasicSetups ==
    {Setup(FALSE, FALSE, DetParams, None, {})}
    \cup
    {Setup(FALSE, TRUE, DetParams, None, {<<>>})}
    \cup
    {Setup(TRUE, TRUE, DetParams, Some(FuzzerConfig(MaxRuns, 7)), {})}
    \cup
    {Setup(FALSE, TRUE, FuzzParams, None, f) : f \in {{}, {<<1>>}}}
    \cup
    {Setup(FALSE, TRUE, FuzzParams, Some(FuzzerConfig(1, 7)), {<<1>>})}

\* the fuzzed cases in all their variety: with and without a configuration
\* of their own, every number of runs, every behaviour of the executor, the
\* cases the fuzzer cannot be created for, and a fuzzed case the filter rejects
CampaignSetups ==
    {Setup(TRUE, TRUE, FuzzParams, None, f) : f \in SUBSET {<<0>>, <<1>>}}
    \cup
    {Setup(FALSE, TRUE, FuzzParams, Some(FuzzerConfig(r, 7)), f) :
        r \in 0 .. MaxRuns, f \in SUBSET {<<0>>, <<1>>}}
    \cup
    {Setup(FALSE, TRUE, p, None, {}) : p \in {UnsupportedParams, UnnamedParams}}
    \cup
    {Setup(TRUE, FALSE, FuzzParams, None, {})}

\* the cases that accompany a case of CampaignSetups
FillerSetups ==
    {Setup(TRUE, FALSE, DetParams, None, {})}
    \cup
    {Setup(FALSE, TRUE, DetParams, None, f) : f \in {{}, {<<>>}}}

CaseSetups == BasicSetups \cup CampaignSetups \cup FillerSetups

\* the cases put between the first and the last case of a crate
PaddingSetups == {Setup(FALSE, TRUE, DetParams, None, {})}

\* the crates of the model: two basic cases in any mix, or a case of
\* CampaignSetups and a filler, with padding between the two
Crates ==
    {f \in [1 .. NumCases -> CaseSetups] :
        /\ \/ f[1] \in BasicSetups /\ f[NumCases] \in BasicSetups
           \/ f[1] \in CampaignSetups /\ f[NumCases] \in FillerSetups
        /\ \A i \in 2 .. (NumCases - 1) : f[i] \in PaddingSetups}

RunnerConfigs ==
    {[exit_first |-> e, fuzzer_runs |-> MaxRuns, fuzzer_seed |-> 3] : e \in BOOLEAN}

Cases == 1 .. NumCases

\* ------------------------------------------------------------------------
\* Pure functions
\* ------------------------------------------------------------------------

\* lib.rs function_args: the parameter types that are not builtins; a type
\* without a debug name is not a builtin
function_args(param_types) ==
    SelectSeq(param_types, LAMBDA pt : pt \notin BUILTINS)

\* the fuzzer's generator: a full-period linear congruential generator
PrngNext(s) == (5 * s + 3) % PrngMod

RECURSIVE PrngState(_, _)
PrngState(seed, n) ==
    IF n = 0 THEN seed % PrngMod ELSE PrngNext(PrngState(seed, n - 1))

\* the bounded sampler: uniform over ArgValues
Sample(s) == (s * ArgRange) \div PrngMod

\* RandomFuzzer::create fails on a type it cannot sample
FuzzerCreateOk(args) == \A j \in DOMAIN args : args[j] \in SupportedTypes

\* the tuple the i-th call of next_args returns, one value per parameter
next_args(seed, args, i) ==
    [j \in 1 .. Len(args) |-> Sample(PrngState(seed, (i - 1) * Len(args) + j))]

RECURSIVE SumSeq(_)
SumSeq(q) == IF q = <<>> THEN 0 ELSE Head(q) + SumSeq(Tail(q))

\* the gas a passing execution reports
GasUsed(args) == 10 + 10 * SumSeq(args)

\* the executor: one single-shot execution of a case on an argument tuple
Execute(case, args) ==
    IF args \in case.failing THEN Failed(case.name)
    ELSE Passed(case.name, GasUsed(args))

\* mutant of SetMax: the least element
SetMax_Least(S) == CHOOSE x \in S : \A y \in S : x <= y

SetMax(S) == CHOOSE x \in S : \A y \in S : y <= x

SetMin(S) == CHOOSE x \in S : \A y \in S : x <= y

\* TestCaseSummary::with_runs_and_gas_usage
with_runs_and_gas_usage(summary, runs, gas_usages) ==
    IF summary.kind \in {"Passed", "Failed"}
    THEN [summary EXCEPT !.runs = Some(runs), !.gas_usages = gas_usages]
    ELSE summary

\* mutant of ResolveFuzzerConfig: the case's runs with the runner's seed
ResolveFuzzerConfig_Mixed(case, config) ==
    IF case.fuzzer_config # None
    THEN FuzzerConfig((CHOOSE fc \in case.fuzzer_config : TRUE).fuzzer_runs,
                      config.fuzzer_seed)
    ELSE FuzzerConfig(config.fuzzer_runs, config.fuzzer_seed)

\* lib.rs 405-411: the case's fuzzer_config, else the runner's
ResolveFuzzerConfig(case, config) ==
    IF case.fuzzer_config # None
    THEN CHOOSE fc \in case.fuzzer_config : TRUE
    ELSE FuzzerConfig(config.fuzzer_runs, config.fuzzer_seed)

\* mutant of FinalResult: the first collected result
FinalResult_First(results) == results[1]

\* lib.rs 444-446: the last collected result
FinalResult(results) == results[Len(results)]

\* mutant of CountRuns: every collected result is counted
CountRuns_All(results) == Len(results)

\* lib.rs 448-458: the collected results that are a decision
CountRuns(results) ==
    Cardinality({i \in DOMAIN results : results[i].kind \in {"Passed", "Failed"}})

\* mutant of RunsMismatch: the comparison is inverted
RunsMismatch_Inverted(runs, fuzzer_runs) == runs = fuzzer_runs

\* mutant of RunsMismatch: the count of decisions is not compared
RunsMismatch_Never(runs, fuzzer_runs) == FALSE

\* lib.rs 464: the campaign saw fewer decisions than runs were asked for
RunsMismatch(runs, fuzzer_runs) == runs # fuzzer_runs

\* mutant of GasUsages: the gas of the last collected run, twice
GasUsages_Last(results) ==
    LET gas == CHOOSE g \in results[Len(results)].gas_used : TRUE
    IN  [min |-> gas, max |-> gas]

\* lib.rs 468-489: minimum and maximum gas over the passed runs
GasUsages(results) ==
    LET passed == {i \in DOMAIN results : results[i].kind = "Passed"}
        gas == UNION {results[i].gas_used : i \in passed}
    IN  [min |-> SetMin(gas), max |-> SetMax(gas)]

\* mutant of CampaignOutcome: the gas usage is computed whenever a run
\* passed, whatever the last collected result is
CampaignOutcome_GasOfAnyPassed(results, fuzzer_runs) ==
    IF results = <<>> THEN TaskPanic
    ELSE LET final_result == FinalResult(results)
             runs == CountRuns(results)
             gas_usages ==
                 IF \E i \in DOMAIN results : results[i].kind = "Passed"
                 THEN Some(GasUsages(results)) ELSE None
         IN  IF final_result.kind = "Passed" /\ RunsMismatch(runs, fuzzer_runs)
             THEN Skipped
             ELSE with_runs_and_gas_usage(final_result, runs, gas_usages)

\* lib.rs 444-494: what the campaign returns once it stopped collecting
CampaignOutcome(results, fuzzer_runs) ==
    IF results = <<>> THEN TaskPanic
    ELSE LET final_result == FinalResult(results)
             runs == CountRuns(results)
         IN  IF final_result.kind = "Passed"
             THEN IF RunsMismatch(runs, fuzzer_runs) THEN Skipped
                  ELSE with_runs_and_gas_usage(final_result, runs,
                                               Some(GasUsages(results)))
             ELSE with_runs_and_gas_usage(final_result, runs, None)

\* mutant of choose_test_strategy: every case is fuzzed
choose_test_strategy_Fuzzing(args) == "fuzzing"

\* lib.rs 356: no fuzzable parameter means a single run
choose_test_strategy(args) == IF args = <<>> THEN "test" ELSE "fuzzing"

\* ------------------------------------------------------------------------
\* sncast: the fee settings of a transaction (helpers/fee.rs)
\* ------------------------------------------------------------------------

\* the greatest u64 and the greatest u128, scaled down
U64Max == 1

U128Max == 3

\* the modulus of FieldElement arithmetic, scaled down; like the field's
\* prime it exceeds every product of a u64 and a u128
FeltModulus == (U64Max + 1) * (U128Max + 1) + 3

Felts == 0 .. (FeltModulus - 1)

\* FieldElement multiplication
FeltMul(a, b) == (a * b) % FeltModulus

OptionFelt == {None} \cup {Some(v) : v \in Felts}

FeeTokens == {"Eth", "Strk"}

\* fee.rs 7-24: what the command line gives
FeeArgs ==
    [fee_token : {None} \cup {Some(t) : t \in FeeTokens},
     max_fee : OptionFelt, max_gas : OptionFelt, max_gas_unit_price : OptionFelt]

\* Err(..) of try_from, with its message
FeeErr(message) ==
    [ok |-> FALSE, token |-> "-", max_fee |-> None, max_gas |-> None,
     max_gas_unit_price |-> None, error |-> message]

\* Ok(FeeSettings::Eth(..)) and Ok(FeeSettings::Strk(..))
FeeOk(token, max_fee, max_gas, max_gas_unit_price) ==
    [ok |-> TRUE, token |-> token, max_fee |-> max_fee, max_gas |-> max_gas,
     max_gas_unit_price |-> max_gas_unit_price, error |-> ""]

\* mutant of EthFeeSettings: the two checks in the other order
EthFeeSettings_PriceFirst(args) ==
    IF args.max_gas_unit_price # None
    THEN FeeErr("Max gas unit price is not supported for ETH fee payment")
    ELSE IF args.max_gas # None
    THEN FeeErr("Max gas is not supported for ETH fee payment")
    ELSE FeeOk("Eth", args.max_fee, None, None)

\* fee.rs 34-46: the Eth arm
EthFeeSettings(args) ==
    IF args.max_gas # None
    THEN FeeErr("Max gas is not supported for ETH fee payment")
    ELSE IF args.max_gas_unit_price # None
    THEN FeeErr("Max gas unit price is not supported for ETH fee payment")
    ELSE FeeOk("Eth", args.max_fee, None, None)

\* mutant of StrkLimitsError: a max fee equal to the limit is refused too
StrkLimitsError_Strict(max_fee, max_gas, max_gas_unit_price) ==
    IF \E f \in max_fee, g \in max_gas, p \in max_gas_unit_price : f # FeltMul(g, p)
    THEN "Max fee should be equal to max gas amount multiplied by max gas unit price"
    ELSE IF max_gas_unit_price = None /\ \E f \in max_fee, g \in max_gas : f <= g
    THEN "Max fee should be greater than or equal to max gas amount"
    ELSE IF max_gas = None /\ \E f \in max_fee, p \in max_gas_unit_price : f <= p
    THEN "Max fee should be greater than or equal to max gas unit price"
    ELSE ""

\* fee.rs 49-65: the message the match on the three limits bails with, ""
\* when no arm bails
StrkLimitsError(max_fee, max_gas, max_gas_unit_price) ==
    IF \E f \in max_fee, g \in max_gas, p \in max_gas_unit_price : f # FeltMul(g, p)
    THEN "Max fee should be equal to max gas amount multiplied by max gas unit price"
    ELSE IF max_gas_unit_price = None /\ \E f \in max_fee, g \in max_gas : f < g
    THEN "Max fee should be greater than or equal to max gas amount"
    ELSE IF max_gas = None /\ \E f \in max_fee, p \in max_gas_unit_price : f < p
    THEN "Max fee should be greater than or equal to max gas unit price"
    ELSE ""

\* fee.rs 68-77: TryInto of an optional FieldElement into an integer type of
\* greatest value `greatest`; the conversion fails on a greater value
TryIntoFits(value, greatest) == \A v \in value : v <= greatest

\* fee.rs 48-80: the Strk arm
StrkFeeSettings(args) ==
    LET message == StrkLimitsError(args.max_fee, args.max_gas, args.max_gas_unit_price)
    IN  IF message # "" THEN FeeErr(message)
        ELSE IF ~TryIntoFits(args.max_gas, U64Max)
        THEN FeeErr("Failed to convert max gas amount")
        ELSE IF ~TryIntoFits(args.max_gas_unit_price, U128Max)
        THEN FeeErr("Failed to convert max gas unit price")
        ELSE FeeOk("Strk", args.max_fee, args.max_gas, args.max_gas_unit_price)

\* fee.rs 29-82: FeeSettings::try_from(FeeArgs)
try_from(args) ==
    IF args.fee_token = None THEN FeeErr("Fee token is not provided")
    ELSE IF args.fee_token = Some("Eth") THEN EthFeeSettings(args)
    ELSE StrkFeeSettings(args)

\* no FeeArgs yet, no conversion yet
NoFeeArgs ==
    [fee_token |-> None, max_fee |-> None, max_gas |-> None, max_gas_unit_price |-> None]

NotConverted == FeeErr("-")

\* fee.rs 140-143: what deployment.estimate_fee() gives: an error, or a gas
\* amount and a gas price, both FieldElements
EstimateFailed == [ok |-> FALSE, gas_consumed |-> 0, gas_price |-> 0]

Estimates ==
    {EstimateFailed}
    \cup {[ok |-> TRUE, gas_consumed |-> g, gas_price |-> p] : g \in Felts, p \in Felts}

\* what get_or_estimate ends with: Ok(StrkFee{..}), Err(..) or a panic
StrkFee(max_gas, max_gas_unit_price) ==
    [kind |-> "Ok", max_gas |-> max_gas, max_gas_unit_price |-> max_gas_unit_price]

StrkFeeErr == [kind |-> "Err", max_gas |-> 0, max_gas_unit_price |-> 0]

StrkFeePanic == [kind |-> "Panic", max_gas |-> 0, max_gas_unit_price |-> 0]

NotEstimated == [kind |-> "-", max_gas |-> 0, max_gas_unit_price |-> 0]

\* Option::unwrap_or
unwrap_or(option, default) == IF option = None THEN default ELSE CHOOSE v \in option : TRUE

\* fee.rs 158, 163: max_fee.floor_div(divisor).try_into()? into an integer
\* type of greatest value `greatest`: FieldElement::floor_div panics on a
\* zero divisor, and the conversion fails on a quotient that does not fit
FloorDivInto(max_fee, divisor, greatest) ==
    IF divisor = 0 THEN [kind |-> "Panic", value |-> 0]
    ELSE IF max_fee \div divisor > greatest THEN [kind |-> "Err", value |-> 0]
    ELSE [kind |-> "Ok", value |-> max_fee \div divisor]

\* fee.rs 152-165: the limits returned for the given max_fee, max_gas and
\* max_gas_unit_price, where max_gas and max_gas_unit_price are the given
\* values or else the estimated ones
StrkLimits(max_fee, given_gas, given_price, max_gas, max_gas_unit_price) ==
    IF (given_gas # None /\ given_price # None) \/ max_fee = None
    THEN StrkFee(max_gas, max_gas_unit_price)
    ELSE LET fee == CHOOSE f \in max_fee : TRUE
         IN  IF given_gas = None
             THEN LET gas == FloorDivInto(fee, max_gas_unit_price, U64Max)
                  IN  IF gas.kind = "Panic" THEN StrkFeePanic
                      ELSE IF gas.kind = "Err" THEN StrkFeeErr
                      ELSE StrkFee(gas.value, max_gas_unit_price)
             ELSE LET price == FloorDivInto(fee, max_gas, U128Max)
                  IN  IF price.kind = "Panic" THEN StrkFeePanic
                      ELSE IF price.kind = "Err" THEN StrkFeeErr
                      ELSE StrkFee(max_gas, price.value)

\* mutant of get_or_estimate: the estimate is preferred to the given values
get_or_estimate_EstimateFirst(settings, estimated) ==
    IF ~estimated.ok THEN StrkFeeErr
    ELSE IF estimated.gas_consumed > U64Max THEN StrkFeeErr
    ELSE IF estimated.gas_price > U128Max THEN StrkFeeErr
    ELSE StrkLimits(settings.max_fee, settings.max_gas, settings.max_gas_unit_price,
                    estimated.gas_consumed, estimated.gas_price)

\* fee.rs 133-167: StrkFeeSettings::get_or_estimate. The arguments of the
\* two unwrap_or are evaluated first, so an estimate that does not fit its
\* integer type is an error whether or not the value was given
get_or_estimate(settings, estimated) ==
    IF ~estimated.ok THEN StrkFeeErr
    ELSE IF estimated.gas_consumed > U64Max THEN StrkFeeErr
    ELSE IF estimated.gas_price > U128Max THEN StrkFeeErr
    ELSE StrkLimits(settings.max_fee, settings.max_gas, settings.max_gas_unit_price,
                    unwrap_or(settings.max_gas, estimated.gas_consumed),
                    unwrap_or(settings.max_gas_unit_price, estimated.gas_price))

\* ------------------------------------------------------------------------
\* sncast: account deploy (starknet_commands/account/deploy.rs)
\* ------------------------------------------------------------------------

\* deploy.rs 77-81
AccountDeployVersions == {"V1", "V3"}

OptionVersion == {None} \cup {Some(v) : v \in AccountDeployVersions}

NotValidated == "-"

\* mutant of validate: only the missing pair is rejected
validate_MissingOnly(version, fee_token) ==
    IF version = None /\ fee_token = None
    THEN "--fee-token or --version must be provided"
    ELSE "Ok"

\* deploy.rs 62-75: Deploy::validate, "Ok" or the message of its error
validate(version, fee_token) ==
    IF version = Some("V3") /\ fee_token = Some("Eth")
    THEN "eth fee token is not supported for v3 deployment"
    ELSE IF version = Some("V1") /\ fee_token = Some("Strk")
    THEN "strk fee token is not supported for v1 deployment"
    ELSE IF version = None /\ fee_token = None
    THEN "--fee-token or --version must be provided"
    ELSE "Ok"

\* deploy.rs 93-96: the fee token a version stands for
fee_token_from_version(version) ==
    IF version = None THEN None
    ELSE IF version = Some("V1") THEN Some("Eth")
    ELSE Some("Strk")

\* Option::or
or(option, other) == IF option # None THEN option ELSE other

\* mutant of DeployFeeArgs: the fee token argument comes first
DeployFeeArgs_ArgumentFirst(version, args) ==
    [args EXCEPT !.fee_token = or(args.fee_token, fee_token_from_version(version))]

\* deploy.rs 98-101: the FeeArgs that deploy converts
DeployFeeArgs(version, args) ==
    [args EXCEPT !.fee_token = or(fee_token_from_version(version), args.fee_token)]

\* ------------------------------------------------------------------------
\* sncast: the accounts file (starknet_commands/account/mod.rs)
\* ------------------------------------------------------------------------

\* the number of calls of write_account_to_accounts_file in a behaviour
MaxCalls == 3

AccountNames == {"alice", "bob"}

ChainIds == {"SN_MAIN", "SN_SEPOLIA"}

\* the serialized AccountData of a call
AccountDatas == {"data1", "data2"}

\* mod.rs 56: the network name of a chain
chain_id_to_network_name(chain_id) ==
    IF chain_id = "SN_MAIN" THEN "alpha-mainnet" ELSE "alpha-sepolia"

NetworkNames == {chain_id_to_network_name(chain_id) : chain_id \in ChainIds}

\* the accounts file: missing, or the accounts it holds under the networks
NoAccountsFile == [exists |-> FALSE, items |-> <<>>]

AccountsFile(items) == [exists |-> TRUE, items |-> items]

\* items[network_name][account], null when there is none
ItemAt(items, network_name, account) ==
    IF <<network_name, account>> \in DOMAIN items
    THEN items[<<network_name, account>>] ELSE "null"

\* mod.rs 47-54: the items read, after the file was created if missing
ReadItems(file) == IF file.exists THEN file.items ELSE <<>>

\* mutant of AccountExists: accounts are looked up whatever the network
AccountExists_AnyNetwork(items, network_name, account) ==
    \E n \in NetworkNames : ItemAt(items, n, account) # "null"

\* mod.rs 58: an account of that name is there under the network
AccountExists(items, network_name, account) ==
    ItemAt(items, network_name, account) # "null"

\* mutant of InsertAccount: the network holds the new account only
InsertAccount_ReplacesNetwork(items, network_name, account, account_json) ==
    [key \in {k \in DOMAIN items : k[1] # network_name} \cup {<<network_name, account>>} |->
        IF key = <<network_name, account>> THEN account_json ELSE items[key]]

\* mod.rs 65: items[network_name][account] = account_json
InsertAccount(items, network_name, account, account_json) ==
    [key \in DOMAIN items \cup {<<network_name, account>>} |->
        IF key = <<network_name, account>> THEN account_json ELSE items[key]]

NotCalled == [account |-> "-", chain_id |-> "-", account_data |-> "-", result |-> "-"]

\* ------------------------------------------------------------------------
\* State
\* ------------------------------------------------------------------------

VARIABLES
    test_cases,      \* the crate's cases, with the filter's and the executor's behaviour
    runner_config,   \* RunnerConfig
    pc,              \* where run_tests_from_crate is: "spawn", "drain", "done", "error"
    next_case,       \* the case the spawn loop is at
    tasks,           \* the case tasks in the scheduler's FuturesUnordered
    task,            \* per case: its task's path, position and result
    fuzzing,         \* per case: its campaign's channel, run tasks and collected results
    rec_closed,      \* the outer channel has been closed
    interrupted,     \* lib.rs 315
    results,         \* lib.rs 314, each outcome tagged with the task that yielded it
    printed,         \* what print_test_result has been called with
    ret,             \* what run_tests_from_crate returned
    executor_calls,  \* per case: the executions started, as <<run, args>>
    effects,         \* what the drain loop did, in the order in which it did it
    in_flight_at_close  \* the cases that were in the executor when the outer channel closed

runner_vars ==
    <<test_cases, runner_config, pc, next_case, tasks, task, fuzzing, rec_closed,
      interrupted, results, printed, ret, executor_calls, effects, in_flight_at_close>>

VARIABLES
    fee_args,        \* the FeeArgs that FeeSettings::try_from is called with
    fee_settings,    \* what FeeSettings::try_from returned
    estimate,        \* what deployment.estimate_fee() returned
    strk_fee         \* what StrkFeeSettings::get_or_estimate ended with

VARIABLES
    deploy_version,    \* the version of the Deploy arguments
    deploy_validated,  \* what Deploy::validate returned
    deploy_fee_token   \* the fee token of the FeeArgs that deploy converts

VARIABLES
    accounts_file,   \* the content of the accounts file
    write_call,      \* the last call of write_account_to_accounts_file and its result
    calls            \* the number of calls made

fee_vars == <<fee_args, fee_settings, estimate, strk_fee>>

deploy_vars == <<deploy_version, deploy_validated, deploy_fee_token>>

accounts_vars == <<accounts_file, write_call, calls>>

sncast_vars == <<fee_vars, deploy_vars, accounts_vars>>

vars == <<runner_vars, sncast_vars>>

\* FeeSettings::try_from is not being called
FeeIdle ==
    /\ fee_args = NoFeeArgs
    /\ fee_settings = NotConverted
    /\ estimate = EstimateFailed
    /\ strk_fee = NotEstimated

\* deploy is not being called
DeployIdle ==
    /\ deploy_version = None
    /\ deploy_validated = NotValidated
    /\ deploy_fee_token = None

\* write_account_to_accounts_file is not being called
AccountsIdle ==
    /\ accounts_file = NoAccountsFile
    /\ write_call = NotCalled
    /\ calls = 0

Case(i, s) ==
    [name |-> CaseNames[i], ignored |-> s.ignored, should_run |-> s.should_run,
     param_types |-> s.param_types, fuzzer_config |-> s.fuzzer_config,
     failing |-> s.failing]

NoTask == [path |-> "-", st |-> "-", result |-> NoResult]

NoCampaign == [closed |-> FALSE, runs |-> <<>>, tasks |-> {}, results |-> <<>>]

NotReturned ==
    [variant |-> "-", runner_exit_status |-> "-", contained_fuzzed_tests |-> FALSE]

\* mutant of Dispatch: the filter is not consulted
Dispatch_Unfiltered(case) ==
    choose_test_strategy(function_args(case.param_types))

\* mutant of Dispatch: a case with the ignored flag is not run either
Dispatch_IgnoredFlag(case) ==
    IF ~case.should_run \/ case.ignored THEN "ignored"
    ELSE choose_test_strategy(function_args(case.param_types))

\* lib.rs 285-311: which task the loop spawns for a case
Dispatch(case) ==
    IF ~case.should_run THEN "ignored"
    ELSE choose_test_strategy(function_args(case.param_types))

\* the runs the campaign of a case asks for, 0 for a case without campaign
RunsAskedFor(case, config) ==
    IF Dispatch(case) = "fuzzing" /\ FuzzerCreateOk(function_args(case.param_types))
    THEN ResolveFuzzerConfig(case, config).fuzzer_runs
    ELSE 0

RECURSIVE TotalRuns(_, _, _)
TotalRuns(cases, config, n) ==
    IF n = 0 THEN 0
    ELSE RunsAskedFor(cases[n], config) + TotalRuns(cases, config, n - 1)

Init ==
    /\ test_cases \in {[i \in Cases |-> Case(i, f[i])] : f \in Crates}
    /\ runner_config \in RunnerConfigs
    /\ TotalRuns(test_cases, runner_config, NumCases) <= MaxRunTasks
    /\ pc = "spawn"
    /\ next_case = 1
    /\ tasks = {}
    /\ task = [c \in Cases |-> NoTask]
    /\ fuzzing = [c \in Cases |-> NoCampaign]
    /\ rec_closed = FALSE
    /\ interrupted = FALSE
    /\ results = <<>>
    /\ printed = <<>>
    /\ ret = NotReturned
    /\ executor_calls = [c \in Cases |-> {}]
    /\ effects = <<>>
    /\ in_flight_at_close = {}
    /\ FeeIdle
    /\ DeployIdle
    /\ AccountsIdle

\* mutant of Finish: the result is stored but the task is never seen to
\* have completed
Finish_NeverReady(c, result) == [task EXCEPT ![c].result = result]

\* the task of case c completes with this result
Finish(c, result) == [task EXCEPT ![c].st = "finished", ![c].result = result]

\* ------------------------------------------------------------------------
\* The crate scheduler: run_tests_from_crate
\* ------------------------------------------------------------------------

\* lib.rs 282-312: one iteration of the spawn loop
SpawnCase ==
    /\ pc = "spawn"
    /\ task' = [task EXCEPT ![next_case] =
                    [path |-> Dispatch(test_cases[next_case]), st |-> "spawned",
                     result |-> NoResult]]
    /\ tasks' = tasks \cup {next_case}
    /\ next_case' = next_case + 1
    /\ pc' = IF next_case = NumCases THEN "drain" ELSE "spawn"
    /\ UNCHANGED <<test_cases, runner_config, fuzzing, rec_closed, interrupted,
                   results, printed, ret, executor_calls>>
    /\ UNCHANGED <<effects, in_flight_at_close>>
    /\ UNCHANGED sncast_vars

\* mutant of ExitFirstFires: exit_first is not consulted
ExitFirstFires_Always(result, config) == result.kind = "Failed"

\* lib.rs 322-323: the exit-first rule
ExitFirstFires(result, config) == result.kind = "Failed" /\ config.exit_first

\* mutant of TasksAfterYield: the tasks not yet yielded are dropped
TasksAfterYield_Dropped(set, c) == {}

\* mutant of TasksAfterYield: the yielded task stays in the set
TasksAfterYield_Kept(set, c) == set

\* lib.rs 317: the tasks left in the set once one was yielded
TasksAfterYield(set, c) == set \ {c}

\* mutant of DrainEffects: the outcome is appended and the channel closed
\* before the outcome is printed
DrainEffects_PrintLast(c, fires) ==
    <<[op |-> "push", case |-> c]>>
    \o (IF fires THEN <<[op |-> "close", case |-> c]>> ELSE <<>>)
    \o <<[op |-> "print", case |-> c]>>

\* lib.rs 320-328: what one iteration of the drain loop does with the
\* outcome of case c, in the order of its statements
DrainEffects(c, fires) ==
    <<[op |-> "print", case |-> c]>>
    \o (IF fires THEN <<[op |-> "close", case |-> c]>> ELSE <<>>)
    \o <<[op |-> "push", case |-> c]>>

\* the cases with an execution in the executor
InExecutor ==
    {c \in Cases :
        \/ task[c].st = "running"
        \/ \E i \in DOMAIN fuzzing[c].runs : fuzzing[c].runs[i].st = "running"}

\* mutant of Yielded: a task is yielded whether it has completed or not
Yielded_Unfinished(c) == c \in tasks

\* lib.rs 317: tasks.next() yields a task of the set that has completed,
\* whichever it is
Yielded(c) == c \in tasks /\ task[c].st = "finished"

\* lib.rs 317-330: one iteration of the drain loop, on the result of a
\* finished task; an Err or a panic of the task is returned at once
Drain(c) ==
    /\ pc = "drain"
    /\ Yielded(c)
    /\ tasks' = TasksAfterYield(tasks, c)
    /\ IF task[c].result.kind \in {"Err", "Panic"}
       THEN /\ pc' = "error"
            /\ ret' = [NotReturned EXCEPT !.variant = "Err"]
            /\ UNCHANGED <<printed, interrupted, rec_closed, results>>
            /\ UNCHANGED <<effects, in_flight_at_close>>
       ELSE /\ printed' = Append(printed, [case |-> c, summary |-> task[c].result])
            /\ interrupted' = (interrupted \/ ExitFirstFires(task[c].result, runner_config))
            /\ rec_closed' = (rec_closed \/ ExitFirstFires(task[c].result, runner_config))
            /\ results' = Append(results, [case |-> c, summary |-> task[c].result])
            /\ effects' = effects \o
                   DrainEffects(c, ExitFirstFires(task[c].result, runner_config))
            /\ in_flight_at_close' =
                   IF ~rec_closed /\ ExitFirstFires(task[c].result, runner_config)
                   THEN InExecutor ELSE in_flight_at_close
            /\ UNCHANGED <<pc, ret>>
    /\ UNCHANGED <<test_cases, runner_config, next_case, task, fuzzing, executor_calls>>
    /\ UNCHANGED sncast_vars

\* mutant of ContainedFuzzedTests: the first outcome only is looked at
ContainedFuzzedTests_First(res) == res # <<>> /\ res[1].summary.runs # None

\* lib.rs 332: some outcome carries a run count
ContainedFuzzedTests(res) == \E i \in DOMAIN res : res[i].summary.runs # None

\* lib.rs 335: the status the summary is built with
RunnerExitStatus(res) == "Default"

\* lib.rs 339-343: the variant returned
ReturnVariant(intr) == IF intr THEN "Interrupted" ELSE "Ok"

\* lib.rs 332-343: the set of tasks is empty, the summary is built and returned
BuildSummary ==
    /\ pc = "drain"
    /\ tasks = {}
    /\ pc' = "done"
    /\ ret' = [variant |-> ReturnVariant(interrupted),
               runner_exit_status |-> RunnerExitStatus(results),
               contained_fuzzed_tests |-> ContainedFuzzedTests(results)]
    /\ UNCHANGED <<test_cases, runner_config, next_case, tasks, task, fuzzing,
                   rec_closed, interrupted, results, printed, executor_calls>>
    /\ UNCHANGED <<effects, in_flight_at_close>>
    /\ UNCHANGED sncast_vars

\* lib.rs 286-288: the task spawned for a case the filter rejects
IgnoredTask(c) ==
    /\ task[c].path = "ignored"
    /\ task[c].st = "spawned"
    /\ task' = Finish(c, Ignored(test_cases[c].name))
    /\ UNCHANGED <<test_cases, runner_config, pc, next_case, tasks, fuzzing, rec_closed,
                   interrupted, results, printed, ret, executor_calls>>
    /\ UNCHANGED <<effects, in_flight_at_close>>
    /\ UNCHANGED sncast_vars

\* ------------------------------------------------------------------------
\* The single-run task: run_test
\* ------------------------------------------------------------------------

\* the task starts: a closed outer channel makes it Skipped, otherwise it
\* enters the executor with no arguments
RunTestStart(c) ==
    /\ task[c].path = "test"
    /\ task[c].st = "spawned"
    /\ IF rec_closed
       THEN /\ task' = Finish(c, Skipped)
            /\ UNCHANGED executor_calls
       ELSE /\ task' = [task EXCEPT ![c].st = "running"]
            /\ executor_calls' = [executor_calls EXCEPT ![c] = @ \cup {<<0, <<>>>>}]
    /\ UNCHANGED <<test_cases, runner_config, pc, next_case, tasks, fuzzing, rec_closed,
                   interrupted, results, printed, ret>>
    /\ UNCHANGED <<effects, in_flight_at_close>>
    /\ UNCHANGED sncast_vars

\* the executor returns: its outcome is the task's result
RunTestFinish(c) ==
    /\ task[c].path = "test"
    /\ task[c].st = "running"
    /\ task' = Finish(c, Execute(test_cases[c], <<>>))
    /\ UNCHANGED <<test_cases, runner_config, pc, next_case, tasks, fuzzing, rec_closed,
                   interrupted, results, printed, ret, executor_calls>>
    /\ UNCHANGED <<effects, in_flight_at_close>>
    /\ UNCHANGED sncast_vars

\* ------------------------------------------------------------------------
\* The fuzz campaign driver: run_with_fuzzing
\* ------------------------------------------------------------------------

\* lib.rs 395-403: every argument type has a debug name
DebugNamesOk(args) == \A j \in DOMAIN args : args[j] # NoDebugName

\* mutant of SpawnRuns: the last run is not spawned
SpawnRuns_OneFewer(fuzzer_seed, fuzzer_runs, args) ==
    [i \in 1 .. (fuzzer_runs - 1) |->
        [st |-> "spawned", args |-> next_args(fuzzer_seed, args, i),
         result |-> NoResult]]

\* mutant of SpawnRuns: the tuples are handed out in the reverse of the
\* order in which they were drawn
SpawnRuns_Reversed(fuzzer_seed, fuzzer_runs, args) ==
    [i \in 1 .. fuzzer_runs |->
        [st |-> "spawned", args |-> next_args(fuzzer_seed, args, fuzzer_runs + 1 - i),
         result |-> NoResult]]

\* lib.rs 416-429: the run tasks spawned, the i-th with the i-th tuple drawn
SpawnRuns(fuzzer_seed, fuzzer_runs, args) ==
    [i \in 1 .. fuzzer_runs |->
        [st |-> "spawned", args |-> next_args(fuzzer_seed, args, i),
         result |-> NoResult]]

\* mutant of is_closed: the sender never sees the channel closed
is_closed_Never(closed) == FALSE

\* lib.rs 390: send.is_closed(), true once the receiver was closed
is_closed(closed) == closed

\* lib.rs 389-429: the campaign task starts. A closed outer channel makes it
\* Skipped; a type without a debug name or one the fuzzer cannot sample makes
\* the task return an error; otherwise the runs are spawned. With no run to
\* wait for, the collecting loop ends at once (lib.rs 433, 444-446).
RunWithFuzzingStart(c) ==
    /\ task[c].path = "fuzzing"
    /\ task[c].st = "spawned"
    /\ LET args == function_args(test_cases[c].param_types)
           fc == ResolveFuzzerConfig(test_cases[c], runner_config)
       IN  IF is_closed(rec_closed)
           THEN /\ task' = Finish(c, Skipped)
                /\ UNCHANGED fuzzing
           ELSE IF ~DebugNamesOk(args) \/ ~FuzzerCreateOk(args)
           THEN /\ task' = Finish(c, TaskErr)
                /\ UNCHANGED fuzzing
           ELSE IF fc.fuzzer_runs = 0
           THEN /\ task' = Finish(c, CampaignOutcome(<<>>, fc.fuzzer_runs))
                /\ UNCHANGED fuzzing
           ELSE /\ task' = [task EXCEPT ![c].st = "collecting"]
                /\ fuzzing' = [fuzzing EXCEPT ![c] =
                        [closed |-> FALSE,
                         runs |-> SpawnRuns(fc.fuzzer_seed, fc.fuzzer_runs, args),
                         tasks |-> 1 .. fc.fuzzer_runs,
                         results |-> <<>>]]
    /\ UNCHANGED <<test_cases, runner_config, pc, next_case, tasks, rec_closed,
                   interrupted, results, printed, ret, executor_calls>>
    /\ UNCHANGED <<effects, in_flight_at_close>>
    /\ UNCHANGED sncast_vars

\* mutant of StopsCollecting: the loop is left on the first result
StopsCollecting_OnAny(result) == TRUE

\* mutant of StopsCollecting: the loop is never left early
StopsCollecting_Never(result) == FALSE

\* lib.rs 438: the collected result ends the campaign
StopsCollecting(result) == result.kind = "Failed"

\* lib.rs 433-494: one iteration of the collecting loop on the result of a
\* finished run; a Failed result closes the campaign channel and leaves the
\* loop, and when the loop is left the campaign's outcome is computed
FuzzingCollect(c, i) ==
    /\ task[c].st = "collecting"
    /\ i \in fuzzing[c].tasks
    /\ fuzzing[c].runs[i].st = "finished"
    /\ LET result == fuzzing[c].runs[i].result
           collected == Append(fuzzing[c].results, result)
           left == fuzzing[c].tasks \ {i}
           fc == ResolveFuzzerConfig(test_cases[c], runner_config)
       IN  /\ fuzzing' = [fuzzing EXCEPT ![c].results = collected,
                                         ![c].tasks = left,
                                         ![c].closed = (@ \/ StopsCollecting(result))]
           /\ task' = IF StopsCollecting(result) \/ left = {}
                      THEN Finish(c, CampaignOutcome(collected, fc.fuzzer_runs))
                      ELSE task
    /\ UNCHANGED <<test_cases, runner_config, pc, next_case, tasks, rec_closed,
                   interrupted, results, printed, ret, executor_calls>>
    /\ UNCHANGED <<effects, in_flight_at_close>>
    /\ UNCHANGED sncast_vars

\* ------------------------------------------------------------------------
\* The task of one fuzz run: run_fuzz_test
\* ------------------------------------------------------------------------

\* the run starts: a closed outer or campaign channel makes it Skipped,
\* otherwise it enters the executor with its argument tuple
RunFuzzTestStart(c, i) ==
    /\ i \in DOMAIN fuzzing[c].runs
    /\ fuzzing[c].runs[i].st = "spawned"
    /\ IF rec_closed \/ fuzzing[c].closed
       THEN /\ fuzzing' = [fuzzing EXCEPT ![c].runs[i].st = "finished",
                                         ![c].runs[i].result = Skipped]
            /\ UNCHANGED executor_calls
       ELSE /\ fuzzing' = [fuzzing EXCEPT ![c].runs[i].st = "running"]
            /\ executor_calls' =
                   [executor_calls EXCEPT ![c] = @ \cup {<<i, fuzzing[c].runs[i].args>>}]
    /\ UNCHANGED <<test_cases, runner_config, pc, next_case, tasks, task, rec_closed,
                   interrupted, results, printed, ret>>
    /\ UNCHANGED <<effects, in_flight_at_close>>
    /\ UNCHANGED sncast_vars

\* the executor returns: its outcome is the run's result
RunFuzzTestFinish(c, i) ==
    /\ i \in DOMAIN fuzzing[c].runs
    /\ fuzzing[c].runs[i].st = "running"
    /\ fuzzing' = [fuzzing EXCEPT ![c].runs[i].st = "finished",
                       ![c].runs[i].result = Execute(test_cases[c], fuzzing[c].runs[i].args)]
    /\ UNCHANGED <<test_cases, runner_config, pc, next_case, tasks, task, rec_closed,
                   interrupted, results, printed, ret, executor_calls>>
    /\ UNCHANGED <<effects, in_flight_at_close>>
    /\ UNCHANGED sncast_vars

\* ------------------------------------------------------------------------
\* Specification
\* ------------------------------------------------------------------------

Runs == 1 .. MaxRuns

Next ==
    \/ SpawnCase
    \/ \E c \in Cases : Drain(c)
    \/ BuildSummary
    \/ \E c \in Cases : IgnoredTask(c)
    \/ \E c \in Cases : RunTestStart(c)
    \/ \E c \in Cases : RunTestFinish(c)
    \/ \E c \in Cases : RunWithFuzzingStart(c)
    \/ \E c \in Cases : \E i \in Runs : FuzzingCollect(c, i)
    \/ \E c \in Cases : \E i \in Runs : RunFuzzTestStart(c, i)
    \/ \E c \in Cases : \E i \in Runs : RunFuzzTestFinish(c, i)

Spec == Init /\ [][Next]_vars

\* the runtime does not stop while run_tests_from_crate or a task it was
\* given can make a step, and every invocation of the executor returns
Fairness == WF_vars(Next)

FairSpec == Init /\ [][Next]_vars /\ Fairness

\* ------------------------------------------------------------------------
\* Specification of the fee settings
\* ------------------------------------------------------------------------

\* run_tests_from_crate is not being called
RunnerIdle ==
    /\ test_cases = <<>>
    /\ runner_config = [exit_first |-> FALSE, fuzzer_runs |-> 0, fuzzer_seed |-> 0]
    /\ pc = "idle"
    /\ next_case = 1
    /\ tasks = {}
    /\ task = <<>>
    /\ fuzzing = <<>>
    /\ rec_closed = FALSE
    /\ interrupted = FALSE
    /\ results = <<>>
    /\ printed = <<>>
    /\ ret = NotReturned
    /\ executor_calls = <<>>
    /\ effects = <<>>
    /\ in_flight_at_close = {}

FeeInit ==
    /\ RunnerIdle
    /\ fee_args \in FeeArgs
    /\ fee_settings = NotConverted
    /\ estimate = EstimateFailed
    /\ strk_fee = NotEstimated
    /\ DeployIdle
    /\ AccountsIdle

\* fee.rs 26-83: the FeeArgs are converted
TryFrom ==
    /\ fee_settings = NotConverted
    /\ fee_settings' = try_from(fee_args)
    /\ UNCHANGED <<fee_args, estimate, strk_fee>>
    /\ UNCHANGED <<runner_vars, deploy_vars, accounts_vars>>

\* fee.rs 133-167: the limits of the Strk settings are completed with an
\* estimate of the deployment's fee
GetOrEstimate ==
    /\ fee_settings.ok
    /\ fee_settings.token = "Strk"
    /\ strk_fee = NotEstimated
    /\ \E estimated \in Estimates :
          /\ estimate' = estimated
          /\ strk_fee' = get_or_estimate(fee_settings, estimated)
    /\ UNCHANGED <<fee_args, fee_settings>>
    /\ UNCHANGED <<runner_vars, deploy_vars, accounts_vars>>

FeeNext == TryFrom \/ GetOrEstimate

SpecFee == FeeInit /\ [][FeeNext]_vars

\* ------------------------------------------------------------------------
\* Specification of account deploy
\* ------------------------------------------------------------------------

DeployInit ==
    /\ RunnerIdle
    /\ AccountsIdle
    /\ fee_args \in FeeArgs
    /\ fee_settings = NotConverted
    /\ estimate = EstimateFailed
    /\ strk_fee = NotEstimated
    /\ deploy_version \in OptionVersion
    /\ deploy_validated = NotValidated
    /\ deploy_fee_token = None

\* deploy.rs 62-75: the Deploy arguments are validated
Validate ==
    /\ deploy_validated = NotValidated
    /\ deploy_validated' = validate(deploy_version, fee_args.fee_token)
    /\ UNCHANGED <<deploy_version, deploy_fee_token>>
    /\ UNCHANGED <<runner_vars, fee_vars, accounts_vars>>

\* deploy.rs 93-102: deploy derives the fee token and converts the FeeArgs
\* into the fee settings of the deployment
Deploy ==
    /\ deploy_validated # NotValidated
    /\ fee_settings = NotConverted
    /\ deploy_fee_token' = DeployFeeArgs(deploy_version, fee_args).fee_token
    /\ fee_settings' = try_from(DeployFeeArgs(deploy_version, fee_args))
    /\ UNCHANGED <<deploy_version, deploy_validated>>
    /\ UNCHANGED <<fee_args, estimate, strk_fee>>
    /\ UNCHANGED <<runner_vars, accounts_vars>>

DeployNext == Validate \/ Deploy

SpecDeploy == DeployInit /\ [][DeployNext]_vars

\* ------------------------------------------------------------------------
\* Specification of the accounts file
\* ------------------------------------------------------------------------

AccountsInit ==
    /\ RunnerIdle
    /\ FeeIdle
    /\ DeployIdle
    /\ AccountsIdle

\* mod.rs 40-72: write_account_to_accounts_file. A missing file is created
\* empty; an account that is there already is an error, raised before the
\* file is written again; otherwise the account is inserted and the file
\* written
WriteAccount(account, chain_id, account_data) ==
    /\ calls < MaxCalls
    /\ calls' = calls + 1
    /\ LET items == ReadItems(accounts_file)
           network_name == chain_id_to_network_name(chain_id)
       IN  IF AccountExists(items, network_name, account)
           THEN /\ accounts_file' = AccountsFile(items)
                /\ write_call' = [account |-> account, chain_id |-> chain_id,
                                  account_data |-> account_data, result |-> "Err"]
           ELSE /\ accounts_file' =
                       AccountsFile(InsertAccount(items, network_name, account, account_data))
                /\ write_call' = [account |-> account, chain_id |-> chain_id,
                                  account_data |-> account_data, result |-> "Ok"]
    /\ UNCHANGED <<runner_vars, fee_vars, deploy_vars>>

AccountsNext ==
    \E account \in AccountNames, chain_id \in ChainIds, account_data \in AccountDatas :
        WriteAccount(account, chain_id, account_data)

SpecAccounts == AccountsInit /\ [][AccountsNext]_vars

\* ------------------------------------------------------------------------
\* Properties
\* ------------------------------------------------------------------------

Returned == pc = "done"

\* the entries of the summary that the task of case c yielded
Entries(c) == {i \in DOMAIN results : results[i].case = c}

Accepted(c) == test_cases[c].should_run

\* the case has no parameter besides builtins
Deterministic(c) == \A j \in DOMAIN test_cases[c].param_types :
                        test_cases[c].param_types[j] \in BUILTINS

IsCampaign(c) == Accepted(c) /\ ~Deterministic(c)

TaskFinished(c) == task[c].st = "finished"

\* C1: every case contributes exactly one outcome to the summary: no task's
\* outcome is ever appended twice, and when the summary is built each of the
\* cases has its entry, with or without cancellation.
C1_ExactlyOneOutcome ==
    /\ \A c \in Cases : Cardinality(Entries(c)) <= 1
    /\ Returned => /\ \A c \in Cases : Cardinality(Entries(c)) = 1
                   /\ Len(results) = NumCases

\* C1 witness: a summary built after the outer channel was closed, with a
\* Skipped outcome in it
C1_Witness ==
    /\ Returned
    /\ rec_closed
    /\ \E i \in DOMAIN results : results[i].summary.kind = "Skipped"
    /\ \A c \in Cases : Cardinality(Entries(c)) = 1

SomeFailed == \E i \in DOMAIN results : results[i].summary.kind = "Failed"

\* C2: a run that returns a summary returns Interrupted exactly when
\* exit_first is set and some drained outcome is Failed, and Ok otherwise.
C2_InterruptedIffExitFirstFailed ==
    Returned =>
        /\ ret.variant \in {"Ok", "Interrupted"}
        /\ ret.variant = "Interrupted" <=> (runner_config.exit_first /\ SomeFailed)

\* C2 witness: Interrupted is returned
C2_Witness ==
    /\ Returned
    /\ ret.variant = "Interrupted"
    /\ runner_config.exit_first
    /\ SomeFailed

\* C3 as stated: a case the filter rejects has no entry in the summary and
\* nothing is printed for it.
C3_Original ==
    /\ \A i \in DOMAIN results : Accepted(results[i].case)
    /\ \A i \in DOMAIN printed : Accepted(printed[i].case)

\* C3 as amended: a case the filter rejects is not run; the one outcome
\* produced for it is Ignored with its name, printed once and appended once.
C3_RejectedIsReportedIgnored ==
    /\ \A i \in DOMAIN results :
          ~Accepted(results[i].case) =>
              results[i].summary = Ignored(test_cases[results[i].case].name)
    /\ \A i \in DOMAIN printed :
          ~Accepted(printed[i].case) =>
              printed[i].summary = Ignored(test_cases[printed[i].case].name)
    /\ Returned =>
          \A c \in Cases :
              ~Accepted(c) =>
                  /\ Cardinality(Entries(c)) = 1
                  /\ Cardinality({i \in DOMAIN printed : printed[i].case = c}) = 1

\* C3 witness: cases [a, b], the filter rejects a, and the summary has two
\* entries: Ignored for a and the outcome of b
C3_Witness ==
    /\ Returned
    /\ ~Accepted(1)
    /\ Accepted(2)
    /\ Len(results) = 2
    /\ \E i \in DOMAIN results :
          results[i].case = 1 /\ results[i].summary.kind = "Ignored"
    /\ \E i \in DOMAIN printed :
          printed[i].case = 1 /\ printed[i].summary.kind = "Ignored"

\* C4 as stated: a case with the ignored flag that the filter accepts is
\* reported Ignored and the executor is never invoked for it.
C4_Original ==
    \A c \in Cases :
        (test_cases[c].ignored /\ Accepted(c)) =>
            /\ executor_calls[c] = {}
            /\ TaskFinished(c) => task[c].result = Ignored(test_cases[c].name)

\* C4 as amended: the ignored flag is not consulted. Ignored is the outcome
\* of exactly the cases the filter rejects, whatever their flag and their
\* signature, and the executor is never invoked for those; an accepted case
\* with the flag is dispatched like any accepted case.
C4_IgnoredIsTheFiltersVerdict ==
    \A c \in Cases :
        /\ ~Accepted(c) => executor_calls[c] = {}
        /\ TaskFinished(c) =>
              (task[c].result.kind = "Ignored" <=> ~Accepted(c))
        /\ TaskFinished(c) /\ ~Accepted(c) =>
              task[c].result = Ignored(test_cases[c].name)
        /\ (task[c].path # "-" /\ Accepted(c)) =>
              task[c].path = (IF Deterministic(c) THEN "test" ELSE "fuzzing")

\* C4 witness: an accepted case with the ignored flag was executed and
\* reported Passed, while a rejected case was reported Ignored
C4_Witness ==
    /\ \E c \in Cases :
          /\ test_cases[c].ignored
          /\ Accepted(c)
          /\ executor_calls[c] # {}
          /\ TaskFinished(c)
          /\ task[c].result.kind = "Passed"
    /\ \E c \in Cases :
          /\ ~Accepted(c)
          /\ TaskFinished(c)
          /\ task[c].result.kind = "Ignored"

\* some case was run: its outcome is neither Ignored nor Skipped
SomeRan == \E i \in DOMAIN results : results[i].summary.kind \in {"Passed", "Failed"}

\* C5 as stated: the status of the summary is TestFailed when an outcome is
\* Failed, Default when cases ran and none failed, DidNotRun when none ran.
C5_Original ==
    Returned =>
        ret.runner_exit_status =
            (IF SomeFailed THEN "TestFailed"
             ELSE IF SomeRan THEN "Default" ELSE "DidNotRun")

\* the run tasks of the campaign of case c
RunTasks(c) == DOMAIN fuzzing[c].runs

RunResult(c, i) == fuzzing[c].runs[i].result

\* the number of runs the campaign of case c is configured with
ConfiguredRuns(c) ==
    IF test_cases[c].fuzzer_config = None
    THEN runner_config.fuzzer_runs
    ELSE (CHOOSE fc \in test_cases[c].fuzzer_config : TRUE).fuzzer_runs

\* C6: whenever a run of a campaign has returned Failed, the outcome of the
\* campaign is Failed or Skipped, never Passed.
C6_FailedRunNeverPassed ==
    \A c \in Cases :
        (TaskFinished(c) /\ \E i \in RunTasks(c) : RunResult(c, i).kind = "Failed") =>
            task[c].result.kind \in {"Failed", "Skipped"}

\* C6 witness: a campaign in which one run passed and another failed has
\* reported Failed
C6_Witness ==
    \E c \in Cases :
        /\ TaskFinished(c)
        /\ \E i \in RunTasks(c) : RunResult(c, i).kind = "Failed"
        /\ \E i \in RunTasks(c) : RunResult(c, i).kind = "Passed"
        /\ task[c].result.kind = "Failed"

\* the gas the runs of the campaign of case c reported
RunGas(c) == UNION {RunResult(c, i).gas_used : i \in RunTasks(c)}

\* C7: when all K >= 1 runs of a campaign returned Passed, the outcome of
\* the campaign is Passed with runs = Some(K) and gas_usages = Some{min, max},
\* the least and the greatest gas of the K runs, in whatever order the runs
\* were collected.
C7_AllPassedGivesPassedWithGas ==
    \A c \in Cases :
        (/\ TaskFinished(c)
         /\ RunTasks(c) # {}
         /\ \A i \in RunTasks(c) : RunResult(c, i).kind = "Passed") =>
            /\ task[c].result.kind = "Passed"
            /\ task[c].result.name = Some(test_cases[c].name)
            /\ Cardinality(RunTasks(c)) = ConfiguredRuns(c)
            /\ task[c].result.runs = Some(ConfiguredRuns(c))
            /\ Cardinality(task[c].result.gas_usages) = 1
            /\ \A u \in task[c].result.gas_usages :
                  /\ u.min \in RunGas(c)
                  /\ u.max \in RunGas(c)
                  /\ \A g \in RunGas(c) : u.min <= g /\ g <= u.max

\* C7 witness: a campaign of at least two runs of different gas has passed
C7_Witness ==
    \E c \in Cases :
        /\ TaskFinished(c)
        /\ task[c].result.kind = "Passed"
        /\ Cardinality(RunTasks(c)) >= 2
        /\ \A i \in RunTasks(c) : RunResult(c, i).kind = "Passed"
        /\ \E u \in task[c].result.gas_usages : u.min < u.max

\* the collected results of the campaign of case c that are a decision
Decided(c) ==
    {i \in DOMAIN fuzzing[c].results :
        fuzzing[c].results[i].kind = "Passed" \/ fuzzing[c].results[i].kind = "Failed"}

LastCollected(c) == fuzzing[c].results[Len(fuzzing[c].results)]

\* C8: a campaign whose last collected result is Passed while the collected
\* decisions are not as many as the configured runs reports Skipped; a
\* campaign that reports Passed has runs equal to the configured runs.
C8_PassedOnlyWithAllRuns ==
    \A c \in Cases :
        (IsCampaign(c) /\ TaskFinished(c)) =>
            /\ (/\ fuzzing[c].results # <<>>
                /\ LastCollected(c).kind = "Passed"
                /\ Cardinality(Decided(c)) # ConfiguredRuns(c)) =>
                   task[c].result = Skipped
            /\ task[c].result.kind = "Passed" =>
                  /\ task[c].result.runs = Some(ConfiguredRuns(c))
                  /\ Cardinality(Decided(c)) = ConfiguredRuns(c)

\* C8 witness: a campaign collected a Skipped run and then a Passed run, and
\* reported Skipped
C8_Witness ==
    \E c \in Cases :
        /\ IsCampaign(c)
        /\ TaskFinished(c)
        /\ fuzzing[c].results # <<>>
        /\ LastCollected(c).kind = "Passed"
        /\ Cardinality(Decided(c)) < ConfiguredRuns(c)
        /\ task[c].result = Skipped

\* C9: a deterministic case that the filter accepts is executed at most
\* once, with no arguments; when it was not skipped it was executed once and
\* its outcome is the executor's, Passed or Failed, with no run count.
C9_DeterministicMirrorsExecutor ==
    \A c \in Cases :
        (Accepted(c) /\ Deterministic(c)) =>
            /\ executor_calls[c] \subseteq {<<0, <<>>>>}
            /\ (TaskFinished(c) /\ task[c].result.kind = "Skipped") =>
                  executor_calls[c] = {}
            /\ (TaskFinished(c) /\ task[c].result.kind # "Skipped") =>
                  /\ executor_calls[c] = {<<0, <<>>>>}
                  /\ task[c].result.kind =
                        (IF <<>> \in test_cases[c].failing THEN "Failed" ELSE "Passed")
                  /\ task[c].result.name = Some(test_cases[c].name)
                  /\ task[c].result.runs = None
                  /\ task[c].result.gas_usages = None

\* C9 witness: a deterministic case was executed and reported Failed in the
\* summary
C9_Witness ==
    \E i \in DOMAIN results :
        /\ Accepted(results[i].case)
        /\ Deterministic(results[i].case)
        /\ executor_calls[results[i].case] = {<<0, <<>>>>}
        /\ results[i].summary.kind = "Failed"
        /\ results[i].summary.runs = None

\* two cases of the crate that differ in their name only: their tasks are
\* two executions on identical inputs
SameInputs(c, d) ==
    /\ c # d
    /\ test_cases[c].should_run = test_cases[d].should_run
    /\ test_cases[c].ignored = test_cases[d].ignored
    /\ test_cases[c].param_types = test_cases[d].param_types
    /\ test_cases[c].fuzzer_config = test_cases[d].fuzzer_config
    /\ test_cases[c].failing = test_cases[d].failing

\* C10 as stated: two executions on identical inputs report the same kind
\* of outcome with the same runs count. The two executions are two cases of
\* one crate with exit_first = false, which share nothing but the outer
\* channel that is then never closed.
C10_Original ==
    \A c, d \in Cases :
        (/\ ~runner_config.exit_first
         /\ SameInputs(c, d)
         /\ TaskFinished(c)
         /\ TaskFinished(d)) =>
            /\ task[c].result.kind = task[d].result.kind
            /\ task[c].result.runs = task[d].result.runs

\* C10 as amended: as long as the outer channel is not closed, two
\* executions on identical inputs report the same kind of outcome, and when
\* it is Passed the same runs count and gas usage; the runs count of a
\* Failed outcome is left to the order in which the runs complete.
C10_SameKindOfOutcome ==
    \A c, d \in Cases :
        (/\ ~rec_closed
         /\ SameInputs(c, d)
         /\ TaskFinished(c)
         /\ TaskFinished(d)) =>
            /\ task[c].result.kind = task[d].result.kind
            /\ task[c].result.kind # "Failed" =>
                  /\ task[c].result.runs = task[d].result.runs
                  /\ task[c].result.gas_usages = task[d].result.gas_usages

\* C10 witness: two campaigns on identical inputs have both reported
\* Failed, with different runs counts
C10_Witness ==
    \E c, d \in Cases :
        /\ ~rec_closed
        /\ SameInputs(c, d)
        /\ IsCampaign(c)
        /\ TaskFinished(c)
        /\ TaskFinished(d)
        /\ task[c].result.kind = "Failed"
        /\ task[d].result.kind = "Failed"
        /\ task[c].result.runs # task[d].result.runs

\* the seed the campaign of case c is configured with
ConfiguredSeed(c) ==
    IF test_cases[c].fuzzer_config = None
    THEN runner_config.fuzzer_seed
    ELSE (CHOOSE fc \in test_cases[c].fuzzer_config : TRUE).fuzzer_seed

\* the i-th tuple a fuzzer seeded for case c draws
Drawn(c, i) ==
    next_args(ConfiguredSeed(c), function_args(test_cases[c].param_types), i)

\* C11: the i-th spawned run of a campaign holds the i-th tuple the fuzzer
\* draws, from the moment the campaign collects and whatever the runs do;
\* the executor is entered by run i with that tuple only; and two campaigns
\* with the same seed and the same type list hand the same tuples to their
\* runs in the same order.
C11_ArgumentSequence ==
    /\ \A c \in Cases :
          /\ \A i \in RunTasks(c) : fuzzing[c].runs[i].args = Drawn(c, i)
          /\ \A call \in executor_calls[c] :
                call[1] \in RunTasks(c) => call[2] = Drawn(c, call[1])
          /\ task[c].st = "collecting" => RunTasks(c) = 1 .. ConfiguredRuns(c)
    /\ \A c, d \in Cases :
          (/\ ConfiguredSeed(c) = ConfiguredSeed(d)
           /\ test_cases[c].param_types = test_cases[d].param_types) =>
              \A i \in RunTasks(c) \cap RunTasks(d) :
                  fuzzing[c].runs[i].args = fuzzing[d].runs[i].args

\* C11 witness: two campaigns with the same seed and type list, one
\* collecting and one finished, have each entered the executor with two
\* different tuples, the same for both campaigns
C11_Witness ==
    \E c, d \in Cases :
        /\ c # d
        /\ ConfiguredSeed(c) = ConfiguredSeed(d)
        /\ test_cases[c].param_types = test_cases[d].param_types
        /\ task[c].st = "collecting"
        /\ TaskFinished(d)
        /\ Cardinality(executor_calls[c]) = 2
        /\ executor_calls[c] = executor_calls[d]
        /\ \E x, y \in executor_calls[c] : x[2] # y[2]

\* the task of case c runs the case: it was spawned for a case the filter
\* accepts, as a single run or as a campaign
RunsTheCase(c) == task[c].path \in {"test", "fuzzing"}

\* C12: once the outer channel is closed, a case task or a campaign that
\* starts finishes in that step with Skipped, without entering the executor
\* and without spawning a run; the executor is never entered for a case
\* skipped that way; and the skipped cases are in the summary like the others.
C12_StartedAfterCloseIsSkipped ==
    /\ [][\A c \in Cases :
            (/\ rec_closed
             /\ RunsTheCase(c)
             /\ task[c].st = "spawned"
             /\ task'[c].st # "spawned") =>
                /\ task'[c].st = "finished"
                /\ task'[c].result = Skipped
                /\ executor_calls'[c] = executor_calls[c]
                /\ fuzzing'[c] = NoCampaign]_vars
    /\ [](\A c \in Cases :
            (RunsTheCase(c) /\ TaskFinished(c) /\ fuzzing[c] = NoCampaign
                /\ task[c].result = Skipped) =>
                    /\ executor_calls[c] = {}
                    /\ Returned => \E i \in Entries(c) : results[i].summary = Skipped)

\* C12 witness: cases [a, b] with exit_first; a failed and was drained
\* before the campaign of b started; the summary holds Failed for a and
\* Skipped for b, and the executor was never entered for b
C12_Witness ==
    /\ Returned
    /\ runner_config.exit_first
    /\ rec_closed
    /\ task[1].result.kind = "Failed"
    /\ task[2].path = "fuzzing"
    /\ task[2].result = Skipped
    /\ fuzzing[2] = NoCampaign
    /\ executor_calls[2] = {}
    /\ \E i \in Entries(1) : results[i].summary.kind = "Failed"
    /\ \E i \in Entries(2) : results[i].summary = Skipped

BadConfiguration(c) ==
    /\ Accepted(c)
    /\ \E j \in DOMAIN test_cases[c].param_types :
          test_cases[c].param_types[j] \notin (BUILTINS \cup SupportedTypes)

\* the scheduler has taken the result of the task of case c out of its set
Drained(c) == TaskFinished(c) /\ c \notin tasks

\* C14 as stated: the campaign of a case with a configuration error reports
\* Failed (or Skipped after a cancellation) and run_tests_from_crate does
\* not return an error.
C14_Original ==
    \A c \in Cases :
        BadConfiguration(c) =>
            /\ TaskFinished(c) => task[c].result.kind \in {"Failed", "Skipped"}
            /\ ret.variant # "Err"

\* C14 as amended: the campaign of a case with a configuration error spawns
\* no run and its task returns an error, unless it started after the outer
\* channel was closed and returned Skipped; when the scheduler drains the
\* error it returns it at once as its own, so that a summary is returned
\* only if the case was Skipped, and a Failed outcome is never produced.
C14_ConfigurationErrorIsReturned ==
    \A c \in Cases :
        BadConfiguration(c) =>
            /\ executor_calls[c] = {}
            /\ fuzzing[c] = NoCampaign
            /\ TaskFinished(c) => task[c].result.kind \in {"Err", "Skipped"}
            /\ (TaskFinished(c) /\ task[c].result.kind = "Skipped") => rec_closed
            /\ (Drained(c) /\ task[c].result.kind = "Err") =>
                  /\ pc = "error"
                  /\ ret.variant = "Err"
                  /\ Entries(c) = {}
            /\ Returned => \E i \in Entries(c) : results[i].summary = Skipped

\* C14 witness: run_tests_from_crate returned the error of a campaign whose
\* parameter type has no debug name, after it had drained and printed the
\* outcome of another case
C14_Witness ==
    \E c \in Cases :
        /\ BadConfiguration(c)
        /\ NoDebugName \in {test_cases[c].param_types[j] :
                               j \in DOMAIN test_cases[c].param_types}
        /\ Drained(c)
        /\ task[c].result.kind = "Err"
        /\ pc = "error"
        /\ ret.variant = "Err"
        /\ \E i \in DOMAIN results : results[i].summary.kind = "Passed"

\* C15: the outcomes appended so far are never more than the input cases,
\* and a summary returned without cancellation has exactly as many entries
\* as there are input cases.
C15_EntriesBoundedByCases ==
    /\ Len(results) <= Len(test_cases)
    /\ (Returned /\ ~interrupted /\ ~rec_closed) => Len(results) = Len(test_cases)

\* C15 witness: a summary returned without cancellation, with a rejected
\* case, a failed case and as many entries as cases
C15_Witness ==
    /\ Returned
    /\ ~interrupted
    /\ ~rec_closed
    /\ SomeFailed
    /\ \E c \in Cases : ~Accepted(c)
    /\ Len(results) = Len(test_cases)

\* the campaign of case c has spawned exactly `runs` runs, with the tuples
\* a fuzzer seeded with `seed` draws
CampaignUses(c, runs, seed) ==
    /\ RunTasks(c) = 1 .. runs
    /\ \A i \in RunTasks(c) :
          fuzzing[c].runs[i].args =
              next_args(seed, function_args(test_cases[c].param_types), i)

\* C16: a campaign that has spawned its runs uses the runs count and the
\* seed of its case's fuzzer_config when the case has one, and those of the
\* RunnerConfig otherwise, whatever the fuzzer_config of the other cases.
C16_CaseConfigurationOverrides ==
    \A c \in Cases :
        RunTasks(c) # {} =>
            /\ \A fc \in test_cases[c].fuzzer_config :
                  CampaignUses(c, fc.fuzzer_runs, fc.fuzzer_seed)
            /\ test_cases[c].fuzzer_config = None =>
                  CampaignUses(c, runner_config.fuzzer_runs, runner_config.fuzzer_seed)

\* C16 witness: a crate with a campaign configured by its case and one
\* configured by the runner; they spawned different numbers of runs and
\* their first runs hold different tuples
C16_Witness ==
    \E c, d \in Cases :
        /\ test_cases[c].fuzzer_config # None
        /\ test_cases[d].fuzzer_config = None
        /\ test_cases[c].param_types = test_cases[d].param_types
        /\ RunTasks(c) # {}
        /\ RunTasks(d) # {}
        /\ RunTasks(c) # RunTasks(d)
        /\ fuzzing[c].runs[1].args # fuzzing[d].runs[1].args

\* the executor fails on no argument tuple of any case
NeverFails == \A c \in Cases : test_cases[c].failing = {}

\* the outcome of case c in the summary, its name left out
Outcome(c) ==
    LET i == CHOOSE i \in Entries(c) : TRUE
    IN  [results[i].summary EXCEPT !.name = None]

\* the gas of the runs a campaign of case c makes
DrawnGas(c) == {GasUsed(Drawn(c, i)) : i \in 1 .. ConfiguredRuns(c)}

\* C17 as stated: two executions on identical inputs with an executor that
\* never fails put the same outcome in the summary. The two executions are
\* two cases of one crate that differ in their name only; as nothing fails
\* the outer channel stays open and their tasks share nothing.
C17_Original ==
    (Returned /\ NeverFails) =>
        \A c, d \in Cases : SameInputs(c, d) => Outcome(c) = Outcome(d)

\* C17 as amended: with an executor that never fails, the summary returned
\* is a function of the inputs but for the gas_used of the fuzzed cases:
\* Ok, status Default, contained_fuzzed_tests true exactly when a case was
\* fuzzed, one outcome per case, Ignored for a rejected case, Passed with the
\* executor's gas for a deterministic case, and for a fuzzed case Passed
\* with runs, the least and the greatest gas of its runs, and as gas_used
\* the gas of one of its runs.
C17_SummaryUpToLastRunGas ==
    (Returned /\ NeverFails) =>
        /\ ret.variant = "Ok"
        /\ ret.runner_exit_status = "Default"
        /\ ret.contained_fuzzed_tests = (\E c \in Cases : IsCampaign(c))
        /\ \A c \in Cases :
              /\ Cardinality(Entries(c)) = 1
              /\ ~Accepted(c) => Outcome(c) = [Ignored("") EXCEPT !.name = None]
              /\ (Accepted(c) /\ Deterministic(c)) =>
                    Outcome(c) = [Passed("", GasUsed(<<>>)) EXCEPT !.name = None]
              /\ IsCampaign(c) =>
                    /\ Outcome(c).kind = "Passed"
                    /\ Outcome(c).runs = Some(ConfiguredRuns(c))
                    /\ \E lo, hi \in DrawnGas(c) :
                          /\ \A g \in DrawnGas(c) : lo <= g /\ g <= hi
                          /\ Outcome(c).gas_usages = Some([min |-> lo, max |-> hi])
                    /\ Outcome(c).gas_used \subseteq DrawnGas(c)
                    /\ Cardinality(Outcome(c).gas_used) = 1

\* C17 witness: a summary in which two fuzzed cases that differ in their
\* name only have passed with all their runs and different gas_used
C17_Witness ==
    /\ Returned
    /\ NeverFails
    /\ \E c, d \in Cases :
          /\ SameInputs(c, d)
          /\ IsCampaign(c)
          /\ Outcome(c).kind = "Passed"
          /\ Outcome(d).kind = "Passed"
          /\ Outcome(c).runs = Outcome(d).runs
          /\ Outcome(c).gas_used # Outcome(d).gas_used

\* run i of the campaign of case c has not returned yet
RunUnfinished(c, i) == fuzzing[c].runs[i].st # "finished"

\* an execution of the test function is in flight
InFlight ==
    \/ \E c \in Cases : task[c].st = "running"
    \/ \E c \in Cases : \E i \in RunTasks(c) : fuzzing[c].runs[i].st = "running"

\* C18 as stated: when run_tests_from_crate has returned its summary, no
\* execution is in flight.
C18_Original == Returned => ~InFlight

\* C18 as amended: when run_tests_from_crate has returned its summary,
\* every case task has finished and the run tasks that have not are runs of
\* campaigns that reported Failed and closed their channel; such a run can
\* still be in the executor, but no execution starts after the return.
C18_OnlyAbandonedRunsOutlive ==
    /\ [](Returned =>
            \A c \in Cases :
                /\ TaskFinished(c)
                /\ \A i \in RunTasks(c) :
                      RunUnfinished(c, i) =>
                          /\ fuzzing[c].closed
                          /\ task[c].result.kind = "Failed")
    /\ [][Returned => executor_calls' = executor_calls]_vars

\* C18 witness: the summary was returned while a run of a campaign that
\* reported Failed is still in the executor
C18_Witness ==
    /\ Returned
    /\ \E c \in Cases :
          /\ task[c].result.kind = "Failed"
          /\ fuzzing[c].closed
          /\ \E i \in RunTasks(c) : fuzzing[c].runs[i].st = "running"

\* FeeSettings::try_from has returned
Converted == fee_settings # NotConverted

\* C19: with fee token Eth the conversion fails with "Max gas is not
\* supported for ETH fee payment" when max_gas is given, fails with "Max gas
\* unit price is not supported for ETH fee payment" when max_gas_unit_price
\* alone is given, and otherwise returns Eth settings with the max_fee of
\* the arguments; with no fee token it fails with "Fee token is not
\* provided" whatever the other fields are.
C19_EthAndNoToken ==
    Converted =>
        /\ fee_args.fee_token = None =>
              fee_settings = FeeErr("Fee token is not provided")
        /\ fee_args.fee_token = Some("Eth") =>
              /\ fee_args.max_gas # None =>
                    fee_settings = FeeErr("Max gas is not supported for ETH fee payment")
              /\ (fee_args.max_gas = None /\ fee_args.max_gas_unit_price # None) =>
                    fee_settings =
                        FeeErr("Max gas unit price is not supported for ETH fee payment")
              /\ (fee_args.max_gas = None /\ fee_args.max_gas_unit_price = None) =>
                    /\ fee_settings.ok
                    /\ fee_settings.token = "Eth"
                    /\ fee_settings.max_fee = fee_args.max_fee

\* C19 witness: Eth with a max fee and both gas limits was refused for its
\* max gas
C19_Witness ==
    /\ Converted
    /\ fee_args.fee_token = Some("Eth")
    /\ fee_args.max_fee # None
    /\ fee_args.max_gas # None
    /\ fee_args.max_gas_unit_price # None
    /\ ~fee_settings.ok
    /\ fee_settings.error = "Max gas is not supported for ETH fee payment"

\* the limits given with Strk that the conversion refuses, the product
\* being that of the integers
Inconsistent(args) ==
    \/ \E f \in args.max_fee, g \in args.max_gas, p \in args.max_gas_unit_price :
          f # g * p
    \/ /\ args.max_gas_unit_price = None
       /\ \E f \in args.max_fee, g \in args.max_gas : f < g
    \/ /\ args.max_gas = None
       /\ \E f \in args.max_fee, p \in args.max_gas_unit_price : f < p

\* max_gas fits a u64 and max_gas_unit_price a u128
InRange(args) ==
    /\ \A g \in args.max_gas : g <= U64Max
    /\ \A p \in args.max_gas_unit_price : p <= U128Max

\* C20: with fee token Strk the conversion fails when max_fee, max_gas and
\* max_gas_unit_price are given and max_fee is not max_gas times
\* max_gas_unit_price, when max_fee and max_gas alone are given and max_fee
\* is less than max_gas, and when max_fee and max_gas_unit_price alone are
\* given and max_fee is less than max_gas_unit_price; every other
\* combination with max_gas in a u64 and max_gas_unit_price in a u128 gives
\* Strk settings with the three values of the arguments.
C20_StrkLimits ==
    (Converted /\ fee_args.fee_token = Some("Strk")) =>
        /\ Inconsistent(fee_args) => ~fee_settings.ok
        /\ (~Inconsistent(fee_args) /\ InRange(fee_args)) =>
              fee_settings =
                  FeeOk("Strk", fee_args.max_fee, fee_args.max_gas,
                        fee_args.max_gas_unit_price)

\* C20 witness: Strk with three positive limits, the max fee being the
\* product of the other two, was accepted with the three values
C20_Witness ==
    /\ Converted
    /\ fee_args.fee_token = Some("Strk")
    /\ \E f \in fee_args.max_fee, g \in fee_args.max_gas,
          p \in fee_args.max_gas_unit_price : f = g * p /\ g > 0 /\ p > 1
    /\ fee_settings.ok
    /\ fee_settings.max_fee = fee_args.max_fee
    /\ fee_settings.max_gas = fee_args.max_gas
    /\ fee_settings.max_gas_unit_price = fee_args.max_gas_unit_price

\* the collected results of the campaign of case c that are Failed
CollectedFailed(c) ==
    {i \in DOMAIN fuzzing[c].results : fuzzing[c].results[i].kind = "Failed"}

\* C21: a Failed result that a campaign has collected is the last one it
\* collected; the campaign has then closed its channel and reported Failed,
\* with runs the number of Passed and Failed results collected, the failure
\* included and skipped runs left out, a number between 1 and the configured
\* runs.
C21_FailedEndsTheCampaign ==
    \A c \in Cases :
        CollectedFailed(c) # {} =>
            /\ CollectedFailed(c) = {Len(fuzzing[c].results)}
            /\ fuzzing[c].closed
            /\ TaskFinished(c)
            /\ task[c].result.kind = "Failed"
            /\ task[c].result.runs = Some(Cardinality(Decided(c)))
            /\ 1 <= Cardinality(Decided(c))
            /\ Cardinality(Decided(c)) <= ConfiguredRuns(c)

\* C21 witness: a campaign collected a skipped run and then a failed one,
\* and reported Failed with runs = 1, fewer than the runs configured
C21_Witness ==
    \E c \in Cases :
        /\ Len(fuzzing[c].results) = 2
        /\ fuzzing[c].results[1] = Skipped
        /\ fuzzing[c].results[2].kind = "Failed"
        /\ task[c].result.kind = "Failed"
        /\ task[c].result.runs = Some(1)
        /\ ConfiguredRuns(c) = 2

\* C22: the outcome of a case carries a gas usage only when it is the Passed
\* outcome of a campaign all of whose configured runs returned Passed; a
\* Failed or Skipped outcome carries none.
C22_GasUsagesOnlyWhenAllPassed ==
    \A c \in Cases :
        TaskFinished(c) =>
            /\ task[c].result.gas_usages # None =>
                  /\ IsCampaign(c)
                  /\ task[c].result.kind = "Passed"
                  /\ RunTasks(c) = 1 .. ConfiguredRuns(c)
                  /\ \A i \in RunTasks(c) : RunResult(c, i).kind = "Passed"
            /\ task[c].result.kind \in {"Failed", "Skipped"} =>
                  task[c].result.gas_usages = None

\* C22 witness: a campaign that collected a Passed run and then a Failed one
\* reported Failed without gas usage, and a campaign reported Skipped without
\* gas usage after it collected a Passed run
C22_Witness ==
    /\ \E c \in Cases :
          /\ TaskFinished(c)
          /\ task[c].result.kind = "Failed"
          /\ Len(fuzzing[c].results) = 2
          /\ fuzzing[c].results[1].kind = "Passed"
          /\ task[c].result.gas_usages = None
    /\ \E c \in Cases :
          /\ TaskFinished(c)
          /\ task[c].result = Skipped
          /\ \E i \in DOMAIN fuzzing[c].results : fuzzing[c].results[i].kind = "Passed"

\* C30 as stated: the assertion "Test should always run at least once" never
\* fails: no campaign selects its final result with no run result collected,
\* so the task of no case panics, whatever number of runs it is configured
\* with.
C30_Original ==
    \A c \in Cases :
        /\ task[c].result.kind # "Panic"
        /\ (IsCampaign(c) /\ TaskFinished(c) /\ task[c].result.kind \notin {"Err", "Skipped"})
              => fuzzing[c].results # <<>>

\* C27: the channel of a campaign is closed only by the campaign itself and
\* only once it has collected a Failed run of its own; when exit_first is not
\* set, a run is Skipped only in a campaign that has collected a Failed run
\* and closed its own channel, so a failure in one campaign never skips a
\* run of another.
C27_CampaignChannelIsItsOwn ==
    \A c \in Cases :
        /\ fuzzing[c].closed =>
              /\ task[c].path = "fuzzing"
              /\ CollectedFailed(c) # {}
        /\ ~runner_config.exit_first =>
              \A i \in RunTasks(c) :
                  RunResult(c, i) = Skipped =>
                      /\ fuzzing[c].closed
                      /\ CollectedFailed(c) # {}

\* C27 witness: without exit_first, a campaign collected a Failed run, closed
\* its channel and had a run skipped, while every run of another campaign of
\* the crate passed
C27_Witness ==
    /\ ~runner_config.exit_first
    /\ \E c, d \in Cases :
          /\ c # d
          /\ fuzzing[c].closed
          /\ \E i \in RunTasks(c) : RunResult(c, i) = Skipped
          /\ ~fuzzing[d].closed
          /\ RunTasks(d) # {}
          /\ \A i \in RunTasks(d) : RunResult(d, i).kind = "Passed"
          /\ TaskFinished(d)
          /\ task[d].result.kind = "Passed"

\* the drain loop closed the outer channel on account of the outcome of case c
ClosedOnAccountOf(c) ==
    \E i \in DOMAIN effects : effects[i] = [op |-> "close", case |-> c]

WentThroughSpawnLoop(c) ==
    /\ IsCampaign(c)
    /\ ~test_cases[c].ignored
    /\ ~BadConfiguration(c)
    /\ \/ task[c].st = "collecting"
       \/ /\ TaskFinished(c)
          /\ ~(task[c].result = Skipped /\ fuzzing[c].results = <<>>)

IsPrint(e) == e.op = "print"

IsPush(e) == e.op = "push"

\* the cases of a sequence of effects or of summary entries, in its order
CasesOf(entries) == [i \in DOMAIN entries |-> entries[i].case]

\* C25: the outcome of a case is printed before it is appended to the
\* summary and before the outer channel is closed on account of it, and the
\* printer is given the outcomes in the order in which the summary lists them.
C25_PrintedBeforeAppended ==
    /\ \A i \in DOMAIN effects :
          effects[i].op \in {"push", "close"} =>
              \E j \in 1 .. (i - 1) : effects[j] = [op |-> "print", case |-> effects[i].case]
    /\ CasesOf(SelectSeq(effects, IsPrint)) = CasesOf(SelectSeq(effects, IsPush))
    /\ CasesOf(SelectSeq(effects, IsPush)) = CasesOf(results)
    /\ printed = results

\* C25 witness: the second case of the crate failed under exit_first and was
\* printed, closed the channel and was appended, in that order, before the
\* outcome of the first case was printed and appended
C25_Witness ==
    /\ Len(results) = 2
    /\ printed = results
    /\ effects = <<[op |-> "print", case |-> 2], [op |-> "close", case |-> 2],
                   [op |-> "push", case |-> 2], [op |-> "print", case |-> 1],
                   [op |-> "push", case |-> 1]>>

\* the kind of outcome the executor gives for case c on an argument tuple
RealKind(c, args) == IF args \in test_cases[c].failing THEN "Failed" ELSE "Passed"

EntryOf(c) == CHOOSE i \in Entries(c) : TRUE

\* the task of case b has completed and the task of case a has not: b
\* completes before a
CompletesBefore(b, a) == TaskFinished(b) /\ ~TaskFinished(a)

\* C26 as stated: for a case a before a case b in input order, if the task
\* of b completes before the task of a then the outcome of b precedes the
\* outcome of a in the summary: from then on the summary never holds the
\* outcome of a without that of b.
C26_Original ==
    \A a, b \in Cases :
        a < b => [](CompletesBefore(b, a) => [](Entries(a) # {} => Entries(b) # {}))

\* C26 as amended: the summary lists the outcomes in the order in which the
\* drain loop takes the completed tasks: an outcome is appended at the end of
\* the summary, for a task that has completed and has no outcome there yet,
\* so an outcome never precedes the outcome of a task that was drained
\* before its own task completed.
C26_DrainOrder ==
    /\ [][results' # results =>
            \E c \in Cases :
                /\ TaskFinished(c)
                /\ Entries(c) = {}
                /\ results' = Append(results, [case |-> c, summary |-> task[c].result])
                /\ \A a \in Cases : ~TaskFinished(a) => Entries(a)' = {}]_vars
    /\ [](\A c \in Cases :
            Entries(c) # {} =>
                /\ TaskFinished(c)
                /\ results[EntryOf(c)].summary = task[c].result
                /\ \A a \in Cases : ~TaskFinished(a) => Entries(a) = {})

\* C26 witness: the outcome of the second case was drained while the task
\* of the first was running, and it is the first of the summary
C26_Witness ==
    /\ Entries(2) # {}
    /\ EntryOf(2) = 1
    /\ CompletesBefore(2, 1)
    /\ task[1].st = "running"

\* run_tests_from_crate has returned, a summary or an error
HasReturned == pc \in {"done", "error"}

\* C24: with an executor that always returns, run_tests_from_crate
\* eventually returns, whatever the crate and the schedule and whether or not
\* a channel gets closed; and no task waits for ever: the task of every case
\* completes.
C24_EventuallyReturns == <>(HasReturned /\ \A c \in Cases : TaskFinished(c))

\* C24 witness: run_tests_from_crate returned its summary after the outer
\* channel and the channel of a campaign were closed
C24_Witness ==
    /\ Returned
    /\ rec_closed
    /\ \E c \in Cases : fuzzing[c].closed
    /\ \E c \in Cases : task[c].result = Skipped

\* the task of case c was spawned
Spawned(c) == task[c].path # "-"

\* C31: a case that is run takes the campaign path exactly when its
\* parameter types without the builtins are not empty, and the path of the
\* single run without arguments otherwise; two cases with the same parameter
\* types take the same path whether or not they have a fuzzer_config.
C31_PathFollowsTheSignature ==
    /\ \A c \in Cases :
          (Spawned(c) /\ Accepted(c)) =>
              /\ task[c].path = (IF Deterministic(c) THEN "test" ELSE "fuzzing")
              /\ task[c].path = "test" =>
                    /\ fuzzing[c] = NoCampaign
                    /\ executor_calls[c] \subseteq {<<0, <<>>>>}
              /\ task[c].path = "fuzzing" =>
                    \A call \in executor_calls[c] : call[1] >= 1 /\ call[2] # <<>>
    /\ \A c, d \in Cases :
          (/\ Spawned(c) /\ Accepted(c)
           /\ Spawned(d) /\ Accepted(d)
           /\ test_cases[c].param_types = test_cases[d].param_types) =>
              task[c].path = task[d].path

\* C31 witness: a case with builtin parameters only and a fuzzer_config took
\* the single-run path, and a case with a fuzzable parameter and no
\* fuzzer_config took the campaign path and entered the executor
C31_Witness ==
    \E c, d \in Cases :
        /\ Accepted(c)
        /\ test_cases[c].fuzzer_config # None
        /\ task[c].path = "test"
        /\ TaskFinished(c)
        /\ Accepted(d)
        /\ test_cases[d].fuzzer_config = None
        /\ task[d].path = "fuzzing"
        /\ executor_calls[d] # {}

\* the outcomes of the summary that carry a run count
WithRuns == {i \in DOMAIN results : results[i].summary.runs # None}

\* C32: contained_fuzzed_tests of the summary returned is true exactly when
\* some outcome of the summary carries a run count; the outcomes that carry
\* one are the Passed and Failed outcomes of campaigns, so it is false when
\* every outcome is that of a deterministic case, Ignored or Skipped.
C32_ContainedFuzzedTests ==
    /\ Returned => (ret.contained_fuzzed_tests <=> WithRuns # {})
    /\ \A i \in DOMAIN results :
          results[i].summary.runs # None <=>
              /\ ~Deterministic(results[i].case)
              /\ results[i].summary.kind \in {"Passed", "Failed"}

\* C32 witness: the summary returned holds the outcome of a deterministic
\* case, without run count, before the Failed outcome of a campaign, with
\* one, and contained_fuzzed_tests is true
C32_Witness ==
    /\ Returned
    /\ ret.contained_fuzzed_tests
    /\ Len(results) = 2
    /\ Deterministic(results[1].case)
    /\ results[1].summary.kind \in {"Passed", "Failed"}
    /\ results[1].summary.runs = None
    /\ results[2].summary.kind = "Failed"
    /\ results[2].summary.runs # None

\* get_or_estimate was called on the Strk settings and the fee was estimated
Estimated == strk_fee # NotEstimated /\ estimate.ok

\* the value of an option that is given
Given(option) == CHOOSE v \in option : TRUE

\* C33 as stated: for Strk settings that try_from accepted with a max_fee,
\* get_or_estimate returns, whatever the estimate, a StrkFee whose max_gas
\* times max_gas_unit_price does not exceed max_fee; a missing max_gas is
\* floor(max_fee / max_gas_unit_price), and a price that alone is missing is
\* floor(max_fee / max_gas).
C33_Original ==
    (Estimated /\ fee_settings.max_fee # None) =>
        /\ strk_fee.kind = "Ok"
        /\ strk_fee.max_gas * strk_fee.max_gas_unit_price <= Given(fee_settings.max_fee)
        /\ fee_settings.max_gas = None =>
              /\ strk_fee.max_gas_unit_price # 0
              /\ strk_fee.max_gas =
                    Given(fee_settings.max_fee) \div strk_fee.max_gas_unit_price
        /\ (fee_settings.max_gas # None /\ fee_settings.max_gas_unit_price = None) =>
              /\ strk_fee.max_gas # 0
              /\ strk_fee.max_gas_unit_price =
                    Given(fee_settings.max_fee) \div strk_fee.max_gas

\* C34: a StrkFee that get_or_estimate returns has the max_gas that was
\* given and the max_gas_unit_price that was given; without a max_fee, a
\* value that was not given is the estimated one.
C34_GivenLimitsAreKept ==
    strk_fee.kind = "Ok" =>
        /\ fee_settings.max_gas # None => strk_fee.max_gas = Given(fee_settings.max_gas)
        /\ fee_settings.max_gas_unit_price # None =>
              strk_fee.max_gas_unit_price = Given(fee_settings.max_gas_unit_price)
        /\ fee_settings.max_fee = None =>
              /\ fee_settings.max_gas = None => strk_fee.max_gas = estimate.gas_consumed
              /\ fee_settings.max_gas_unit_price = None =>
                    strk_fee.max_gas_unit_price = estimate.gas_price

\* C34 witness: without a max_fee, with a max_gas given that differs from
\* the estimated gas and no price given, the StrkFee returned has the given
\* max_gas and the estimated price
C34_Witness ==
    /\ strk_fee.kind = "Ok"
    /\ fee_settings.max_fee = None
    /\ fee_settings.max_gas = Some(1)
    /\ fee_settings.max_gas_unit_price = None
    /\ estimate.gas_consumed = 0
    /\ estimate.gas_price = 2
    /\ strk_fee = StrkFee(1, 2)

\* the pairs of version and fee token that C35 says are rejected
RejectedPairs ==
    {<<Some("V3"), Some("Eth")>>, <<Some("V1"), Some("Strk")>>, <<None, None>>}

\* deploy has derived its fee token and converted the FeeArgs
Deployed == fee_settings # NotConverted

\* C35: Deploy::validate rejects the pairs (V3, Eth), (V1, Strk) and (none,
\* none) of version and fee token and accepts every other pair; deploy uses
\* the fee token of the version when a version is given and the fee token
\* argument otherwise; so after a validate that passed, deploy has a fee
\* token, V1 goes with Eth and V3 with Strk, and a fee token argument that
\* was given is the one used.
C35_ValidatedDeployIsConsistent ==
    /\ deploy_validated # NotValidated =>
          (deploy_validated # "Ok" <=>
              <<deploy_version, fee_args.fee_token>> \in RejectedPairs)
    /\ Deployed =>
          /\ deploy_version = Some("V1") => deploy_fee_token = Some("Eth")
          /\ deploy_version = Some("V3") => deploy_fee_token = Some("Strk")
          /\ deploy_version = None => deploy_fee_token = fee_args.fee_token
          /\ fee_settings.ok => Some(fee_settings.token) = deploy_fee_token
    /\ (Deployed /\ deploy_validated = "Ok") =>
          /\ deploy_fee_token # None
          /\ fee_args.fee_token # None => deploy_fee_token = fee_args.fee_token
          /\ fee_settings.error # "Fee token is not provided"

\* C35 witness: a deploy with version V3 and no fee token argument passed
\* validate and converted its FeeArgs into Strk settings
C35_Witness ==
    /\ deploy_validated = "Ok"
    /\ deploy_version = Some("V3")
    /\ fee_args.fee_token = None
    /\ deploy_fee_token = Some("Strk")
    /\ fee_settings.ok
    /\ fee_settings.token = "Strk"

\* the accounts the file holds, by network name and account name
FileItems == ReadItems(accounts_file)

\* the network name of the chain of the last call
CalledNetwork == chain_id_to_network_name(write_call.chain_id)

\* C36: write_account_to_accounts_file never overwrites an account. A call
\* fails exactly when the file holds an entry of the account's name under the
\* network name of the call's chain, and then the file is left as it was; a
\* call that succeeds adds that entry with the call's data, and every entry
\* the file held is still there with the data it had. This holds for each
\* call of any sequence of calls
C36_NeverOverwrites ==
    [][ /\ write_call'.result = "Err" <=>
              ItemAt(FileItems, CalledNetwork', write_call'.account) # "null"
        /\ write_call'.result = "Err" => accounts_file' = accounts_file
        /\ write_call'.result = "Ok" =>
              /\ accounts_file'.exists
              /\ DOMAIN FileItems' =
                    DOMAIN FileItems \cup {<<CalledNetwork', write_call'.account>>}
              /\ ItemAt(FileItems', CalledNetwork', write_call'.account) =
                    write_call'.account_data
        /\ \A key \in DOMAIN FileItems :
              /\ key \in DOMAIN FileItems'
              /\ FileItems'[key] = FileItems[key]
      ]_vars

\* a third call for an account that is there under both networks has failed
\* and the data of the first call is still in the file
C36_Witness ==
    /\ calls = 3
    /\ write_call = [account |-> "alice", chain_id |-> "SN_MAIN",
                     account_data |-> "data2", result |-> "Err"]
    /\ ItemAt(FileItems, "alpha-mainnet", "alice") = "data1"
    /\ ItemAt(FileItems, "alpha-sepolia", "alice") = "data2"

====
